---- MODULE Spec2Model ----
(***************************************************************************)
(* Model of src/app.py: the SPX dashboard's retrieval pipeline             *)
(* (load_4h_data, convert_to_paris_time, load_intraday_data,               *)
(* load_intraday_data_robust), the daily summary builder                   *)
(* (create_daily_summary_table) and the two page functions that drive      *)
(* them.  The market-data provider (yfinance) and the streamlit message    *)
(* sink are the environment: a provider call either raises or returns      *)
(* rows, and every st.error / st.warning / st.info is appended to `ui`.    *)
(*                                                                         *)
(* Dates are day ordinals (1 = 2025-01-01); a timestamp is minutes since   *)
(* ordinal 0, as wall-clock time of the series' zone.  Prices are cents.   *)
(***************************************************************************)
EXTENDS Integers, Sequences, FiniteSets

VARIABLES
    pc,             \* position inside the running page function
    page,           \* page chosen in the sidebar: "daily" | "intraday"
    selected_date,  \* date picked on the intraday page (ordinal), 0 on the daily page
    tzfault,        \* step of convert_to_paris_time that raises: "none" | "resolve" | "localize" | "convert"
    naive,          \* TRUE when the provider returns a tz-naive index
    hist4h,         \* provider outcome of the latest 4h history() call
    hist1m,         \* what the provider holds per date at interval 1m (date -> kind)
    hist5m,         \* what the provider holds per date at interval 5m (date -> kind)
    data,           \* the page's `data` frame
    table_data,     \* daily page: `table_data`
    daily_data,     \* create_daily_summary_table: `daily_data` when its loop has ended
    summary_table,  \* daily page: `summary_table` (sequence of display rows, or None)
    ui,             \* streamlit messages emitted so far
    calls           \* provider history() calls issued so far

vars == <<pc, page, selected_date, tzfault, naive, hist4h, hist1m, hist5m, data,
          table_data, daily_data, summary_table, ui, calls>>

----------------------------------------------------------------------------
(* Bounds of the model *)

\* latest calendar day (ordinal) a 4h table series may end on
MaxDay == 42
\* first calendar day of every 4h table series
FirstDay == 10
\* number of close-price patterns of the 4h table series
NumPatterns == 2
\* number of ways the intraday catalogue is laid over the calendar
NumOffsets == 9
\* the date picked on the intraday page
SelDate == 35

(* Program constants *)

\* range(1, 8): the fallback tries 1..7 days back
MaxDaysBack == 7
\* daily_data.tail(30)
LookbackDays == 30
\* intraday_data.tail(5)
TailLen == 5
\* len(last_5min) >= 2
MinSamples == 2

----------------------------------------------------------------------------
(* Calendar: strftime('%Y-%m-%d'), strptime, timedelta(days=1), '%A' *)

MinutesPerDay == 1440

CumDays == <<0, 31, 59, 90, 120, 151, 181, 212, 243, 273, 304, 334, 365>>

\* date.strftime('%Y-%m-%d'): the (year, month, day) text of an ordinal of 2025
Strftime(d) ==
    LET m == CHOOSE k \in 1..12 : CumDays[k] < d /\ d <= CumDays[k + 1]
    IN  <<2025, m, d - CumDays[m]>>

\* datetime.strptime(s, "%Y-%m-%d"): back to the ordinal
Strptime(s) == CumDays[s[2]] + s[3]

\* date.strftime('%A'); 2025-01-01 is a Wednesday
DayName(d) ==
    <<"Monday", "Tuesday", "Wednesday", "Thursday", "Friday", "Saturday", "Sunday">>[((d + 1) % 7) + 1]

\* index.date of a timestamp
DateOf(t) == t \div MinutesPerDay

----------------------------------------------------------------------------
(* Frames.  A frame is [none, tz, bars]; none = TRUE is Python's None.     *)

None == [none |-> TRUE, tz |-> "-", bars |-> <<>>]

Frame(tz, bars) == [none |-> FALSE, tz |-> tz, bars |-> bars]

\* `data is not None and not data.empty`
HasData(f) == ~f.none /\ f.bars # <<>>

Bar(t, o, h, l, c, v) == [t |-> t, Open |-> o, High |-> h, Low |-> l, Close |-> c, Volume |-> v]

\* st.error / st.warning / st.info, tagged with the function that emits it
Msg(kind, src, date) == [kind |-> kind, src |-> src, date |-> date]

\* F applied to the value of e, with e evaluated once
Let(e, F(_)) == CHOOSE y \in { F(x) : x \in {e} } : TRUE

\* data[data.index.date == d]: the bars of s that are on date d
OnDate(s, d) == SelectSeq(s, LAMBDA b : DateOf(b.t) = d)

\* df.head(n) in place of df.tail(n)
HeadN(s, n) == IF Len(s) <= n THEN s ELSE SubSeq(s, 1, n)

\* df.tail(n)
TailN(s, n) == IF Len(s) <= n THEN s ELSE SubSeq(s, Len(s) - n + 1, Len(s))

----------------------------------------------------------------------------
(* convert_to_paris_time *)

\* minutes to add to a wall-clock time of zone tz to get Paris wall-clock time
ParisOffset(tz) == IF tz = "UTC" THEN 60 ELSE IF tz = "America/New_York" THEN 360 ELSE 0

\* index.tz_localize('UTC'): same wall-clock values, now zoned
TzLocalize(f) == [f EXCEPT !.tz = "UTC"]

\* index.tz_convert(paris_tz)
TzConvert(f) ==
    [f EXCEPT !.tz = "Europe/Paris",
              !.bars = [i \in 1..Len(f.bars) |->
                           [f.bars[i] EXCEPT !.t = f.bars[i].t + ParisOffset(f.tz)]]]

TzWarning == <<Msg("warning", "convert_to_paris_time", 0)>>

convert_to_paris_time(frame) ==
    Let(frame, LAMBDA f :
    IF f.none \/ f.bars = <<>> THEN [ret |-> f, ui |-> <<>>]
    ELSE IF tzfault = "resolve" THEN [ret |-> f, ui |-> TzWarning]
    ELSE IF f.tz = "naive" /\ tzfault = "localize" THEN [ret |-> f, ui |-> TzWarning]
    ELSE LET g == IF f.tz = "naive" THEN TzLocalize(f) ELSE f
         IN  IF tzfault = "convert"
             THEN [ret |-> g, ui |-> TzWarning]   \* data.index was already reassigned
             ELSE [ret |-> TzConvert(g), ui |-> <<>>])

----------------------------------------------------------------------------
(* The provider: yf.Ticker("^GSPC").history(...)                           *)
(* An outcome is [raises, tz, bars]; raises = TRUE is an exception.        *)

Raises == [raises |-> TRUE, tz |-> "-", bars |-> <<>>]

Rows(tz, bars) == [raises |-> FALSE, tz |-> tz, bars |-> bars]

\* the zone of the index the provider returns
ProviderTz == IF naive THEN "naive" ELSE "America/New_York"

\* naive stamps are UTC wall-clock, five hours ahead of New York
ProviderShift == IF naive THEN 300 ELSE 0

\* the closes (cents) of the 1-minute samples of date d, by kind
Closes(kind, d) ==
    LET b == 500000 + 100 * d
    IN  CASE kind = "one"   -> <<b>>
          [] kind = "up2"   -> <<b, b + 25>>
          [] kind = "down3" -> <<b + 40, b + 30, b + 10>>
          [] kind = "flat4" -> <<b + 5, b, b + 20, b + 5>>
          [] kind = "six"   -> <<b + 90, b, b + 1, b + 2, b + 3, b + 50>>
          [] kind = "zero6" -> <<b + 60, b + 7, b + 1, b + 2, b + 3, b + 7>>
          [] OTHER          -> <<>>

\* history(start=d, end=d+1, interval=...) when the provider holds `kind` for d
IntradayOutcome(kind, d) ==
    IF kind = "raise" THEN Raises
    ELSE IF kind = "stray"
         THEN Rows(ProviderTz, <<Bar((d + 1) * MinutesPerDay, 1, 1, 1, 1, 0)>>)
         ELSE LET cl == Closes(kind, d)
              IN  Rows(ProviderTz,
                       [i \in 1..Len(cl) |->
                           Bar(d * MinutesPerDay + 950 + ProviderShift + i,
                               cl[i], cl[i], cl[i], cl[i], 100)])

\* the close of 4h bar k (1 or 2) of day d under price pattern p
Price(p, d, k) ==
    LET c == IF p = 1 THEN 500000 + ((2 * d + 2) % 3) * 50
             ELSE 500000 + ((d \div 2) % 2) * 50
    IN  IF k = 1 THEN c + 7 ELSE c

\* the two 4h bars (09:30 and 13:30 New York) of day d
DayBars(p, d) ==
    [k \in 1..2 |->
        LET c == Price(p, d, k)
        IN  Bar(d * MinutesPerDay + 330 + 240 * k + ProviderShift, c - 10, c + 20, c - 30, c, 1000 + k)]

RECURSIVE SeriesBars(_, _, _, _)
\* 4h bars of the days from..to, without the day `hole`
SeriesBars(p, from, to, hole) ==
    IF from > to THEN <<>>
    ELSE (IF from = hole THEN <<>> ELSE DayBars(p, from)) \o SeriesBars(p, from + 1, to, hole)

\* history(period=..., interval="4h"): an error, nothing, or bars of FirstDay..last
\* for a last day among `lasts`, with at most one day missing
TableOutcomes(lasts) ==
    {Raises, Rows(ProviderTz, <<>>)} \cup
    UNION { { Rows(ProviderTz, SeriesBars(p, FirstDay, last, hole)) :
                hole \in {0, FirstDay + 1, last - 1} } :
            p \in 1..NumPatterns, last \in lasts }

\* every length is drawn with a working conversion, three lengths with a failing one
Outcomes4h ==
    IF tzfault = "none" THEN TableOutcomes(FirstDay..MaxDay)
    ELSE TableOutcomes({FirstDay, FirstDay + 3, MaxDay})

\* one provider call, as logged in `calls`
Call(interval, date) == [interval |-> interval, date |-> date]

\* what the provider holds for a date at an interval (nothing for a date outside its holdings)
Hist(interval, d) ==
    LET h == IF interval = "1m" THEN hist1m ELSE hist5m
    IN  IF d \in DOMAIN h THEN h[d] ELSE "empty"

----------------------------------------------------------------------------
(* load_4h_data, load_intraday_data, load_intraday_data_robust             *)
(* Each returns [ret, ui, calls]: the value returned, the messages it      *)
(* emitted and the provider calls it made.                                 *)

\* load_4h_data asking the provider a second time after an error
load_4h_data_retry(outcome) ==
    IF outcome.raises
    THEN [ret |-> None, ui |-> <<Msg("error", "load_4h_data", 0)>>,
          calls |-> <<Call("4h", 0), Call("4h", 0)>>]
    ELSE LET c == convert_to_paris_time(Frame(outcome.tz, outcome.bars))
         IN  [ret |-> c.ret, ui |-> c.ui, calls |-> <<Call("4h", 0)>>]

load_4h_data(outcome) ==
    IF outcome.raises
    THEN [ret |-> None, ui |-> <<Msg("error", "load_4h_data", 0)>>, calls |-> <<Call("4h", 0)>>]
    ELSE LET c == convert_to_paris_time(Frame(outcome.tz, outcome.bars))
         IN  [ret |-> c.ret, ui |-> c.ui, calls |-> <<Call("4h", 0)>>]

load_intraday_data(date_str, interval) ==
    LET start_date == Strptime(date_str)
        outcome    == IntradayOutcome(Hist(interval, start_date), start_date)
    IN  IF outcome.raises
        THEN [ret |-> None, ui |-> <<Msg("error", "load_intraday_data", 0)>>,
              calls |-> <<Call(interval, start_date)>>]
        ELSE LET kept == IF outcome.bars # <<>>
                         THEN OnDate(outcome.bars, start_date)
                         ELSE outcome.bars
             IN  Let(convert_to_paris_time(Frame(outcome.tz, kept)), LAMBDA c :
                     [ret |-> c.ret, ui |-> c.ui, calls |-> <<Call(interval, start_date)>>])

RECURSIVE RobustLoopShort(_, _, _, _)
\* RobustLoop with range(1, 7): the seventh day back is never tried
RobustLoopShort(original_date, days_back, interval, sofar) ==
    Let(sofar, LAMBDA acc :
    IF days_back >= MaxDaysBack
    THEN [ret |-> None, ui |-> acc.ui, calls |-> acc.calls]
    ELSE LET try_date == original_date - days_back
         IN  Let(load_intraday_data(Strftime(try_date), interval), LAMBDA r :
             IF HasData(r.ret)
             THEN [ret |-> r.ret,
                   ui |-> acc.ui \o r.ui \o <<Msg("info", "load_intraday_data_robust", try_date)>>,
                   calls |-> acc.calls \o r.calls]
             ELSE RobustLoopShort(original_date, days_back + 1, interval,
                                  [ui |-> acc.ui \o r.ui, calls |-> acc.calls \o r.calls])))

RECURSIVE RobustLoopWrongDate(_, _, _, _)
\* RobustLoop whose message names the requested date instead of try_date
RobustLoopWrongDate(original_date, days_back, interval, sofar) ==
    Let(sofar, LAMBDA acc :
    IF days_back > MaxDaysBack
    THEN [ret |-> None, ui |-> acc.ui, calls |-> acc.calls]
    ELSE LET try_date == original_date - days_back
         IN  Let(load_intraday_data(Strftime(try_date), interval), LAMBDA r :
             IF HasData(r.ret)
             THEN [ret |-> r.ret,
                   ui |-> acc.ui \o r.ui \o <<Msg("info", "load_intraday_data_robust", original_date)>>,
                   calls |-> acc.calls \o r.calls]
             ELSE RobustLoopWrongDate(original_date, days_back + 1, interval,
                                      [ui |-> acc.ui \o r.ui, calls |-> acc.calls \o r.calls])))

RECURSIVE RobustLoop(_, _, _, _)
\* the `for days_back in range(1, 8)` loop, from days_back on; sofar = [ui, calls] of the earlier attempts
RobustLoop(original_date, days_back, interval, sofar) ==
    Let(sofar, LAMBDA acc :
    IF days_back > MaxDaysBack
    THEN [ret |-> None, ui |-> acc.ui, calls |-> acc.calls]
    ELSE LET try_date == original_date - days_back
         IN  Let(load_intraday_data(Strftime(try_date), interval), LAMBDA r :
             IF HasData(r.ret)
             THEN [ret |-> r.ret,
                   ui |-> acc.ui \o r.ui \o <<Msg("info", "load_intraday_data_robust", try_date)>>,
                   calls |-> acc.calls \o r.calls]
             ELSE RobustLoop(original_date, days_back + 1, interval,
                             [ui |-> acc.ui \o r.ui, calls |-> acc.calls \o r.calls])))

load_intraday_data_robust(date_str, interval) ==
    Let(load_intraday_data(date_str, interval), LAMBDA first :
        IF HasData(first.ret) THEN first
        ELSE RobustLoop(Strptime(date_str), 1, interval, [ui |-> first.ui, calls |-> first.calls]))

----------------------------------------------------------------------------
(* create_daily_summary_table                                              *)

Up == "up"
Down == "down"
Flat == "flat"

\* a float: NaN, or the exact ratio num/den (den > 0)
NaN == [nan |-> TRUE, num |-> 0, den |-> 1]

Num(n, d) == [nan |-> FALSE, num |-> n, den |-> d]

\* x > 0 and x < 0 on floats: both FALSE on NaN
Gt0(x) == ~x.nan /\ x.num > 0

Lt0(x) == ~x.nan /\ x.num < 0

\* f"{x:.2f}": "nan", or x rounded to hundredths
Fmt2(x) ==
    IF x.nan THEN [nan |-> TRUE, hundredths |-> 0]
    ELSE [nan |-> FALSE, hundredths |-> (2 * 100 * x.num + x.den) \div (2 * x.den)]

MaxOf(s, field) ==
    LET S == { s[i][field] : i \in 1..Len(s) } IN CHOOSE x \in S : \A y \in S : y <= x

MinOf(s, field) ==
    LET S == { s[i][field] : i \in 1..Len(s) } IN CHOOSE x \in S : \A y \in S : x <= y

RECURSIVE SumOf(_, _, _)
\* the sum of s[i][field] for i >= the given index
SumOf(s, field, i) == IF i > Len(s) THEN 0 ELSE s[i][field] + SumOf(s, field, i + 1)

\* one bin of resample('D').agg(first, max, min, last, sum): NaN prices when the day has no bar
AggDay(s, d) ==
    IF s = <<>>
    THEN [date |-> d, nan |-> TRUE, Open |-> 0, High |-> 0, Low |-> 0, Close |-> 0, Volume |-> 0]
    ELSE [date |-> d, nan |-> FALSE, Open |-> s[1].Open, High |-> MaxOf(s, "High"),
          Low |-> MinOf(s, "Low"), Close |-> s[Len(s)].Close, Volume |-> SumOf(s, "Volume", 1)]

\* data.resample('D').agg(...): one bin per calendar day from the first bar's day to the last's
Resample(bars) ==
    LET first == DateOf(bars[1].t)
        last  == DateOf(bars[Len(bars)].t)
    IN  [k \in 1..(last - first + 1) |->
            Let(OnDate(bars, first + k - 1), LAMBDA s : AggDay(s, first + k - 1))]

\* .dropna()
DropNa(rows) == SelectSeq(rows, LAMBDA r : ~r.nan)

\* daily_data['Close'].pct_change() * 100 at row i
PctChange(rows, i) ==
    IF i = 1 THEN NaN
    ELSE Num((rows[i].Close - rows[i - 1].Close) * 100, rows[i - 1].Close)

\* lambda x: up if x > 0 else down if x < 0 else flat
DailyTrend(x) == IF Gt0(x) THEN Up ELSE IF Lt0(x) THEN Down ELSE Flat

\* the if / elif / else on change_points
Last5minTrend(x) == IF Gt0(x) THEN Up ELSE IF Lt0(x) THEN Down ELSE Flat

\* daily_data after lines 236-254: the resampled days with their change, trend and the defaults
InitialDaily(bars) ==
    Let(DropNa(Resample(bars)), LAMBDA rows :
        [i \in 1..Len(rows) |->
            [date |-> rows[i].date, Open |-> rows[i].Open, High |-> rows[i].High,
             Low |-> rows[i].Low, Close |-> rows[i].Close, Volume |-> rows[i].Volume,
             Daily_Change |-> PctChange(rows, i),
             Daily_Trend |-> DailyTrend(PctChange(rows, i)),
             Last_5min_Change |-> Num(0, 100),
             Last_5min_Trend |-> Flat]])

\* daily_data['Last_5min_Change'] = change: the whole column instead of the row of `date`
SetLast5minColumn(daily, date, change, trend) ==
    [i \in 1..Len(daily) |->
        [daily[i] EXCEPT !.Last_5min_Change = change, !.Last_5min_Trend = trend]]

\* daily_data.loc[date, 'Last_5min_Change'] = change; daily_data.loc[date, 'Last_5min_Trend'] = trend
SetLast5min(daily, date, change, trend) ==
    [i \in 1..Len(daily) |->
        IF daily[i].date = date
        THEN [daily[i] EXCEPT !.Last_5min_Change = change, !.Last_5min_Trend = trend]
        ELSE daily[i]]

\* the retrieval of one day's bars through the fallback
FetchDayRobust(date_str) == load_intraday_data_robust(date_str, "1m")

\* the retrieval of one day's 1-minute bars inside the loop (line 264)
FetchDay(date_str) == load_intraday_data(date_str, "1m")

\* SummaryStep taking start_price from the day's first sample instead of the first of tail(5)
SummaryStepWholeDay(daily, date) ==
    Let(FetchDay(Strftime(date)), LAMBDA r :
        LET last_5min == TailN(r.ret.bars, TailLen)
        IN  IF HasData(r.ret) /\ Len(last_5min) >= MinSamples
            THEN LET change_points == Num(last_5min[Len(last_5min)].Close - r.ret.bars[1].Close, 100)
                 IN  [daily |-> SetLast5min(daily, date, change_points, Last5minTrend(change_points)),
                      ui |-> r.ui, calls |-> r.calls]
            ELSE [daily |-> daily, ui |-> r.ui, calls |-> r.calls])

\* one iteration of the loop of lines 260-285, for the row of `date`
SummaryStep(daily, date) ==
    Let(FetchDay(Strftime(date)), LAMBDA r :
        LET last_5min == TailN(r.ret.bars, TailLen)
        IN  IF HasData(r.ret) /\ Len(last_5min) >= MinSamples
            THEN LET change_points == Num(last_5min[Len(last_5min)].Close - last_5min[1].Close, 100)
                 IN  [daily |-> SetLast5min(daily, date, change_points, Last5minTrend(change_points)),
                      ui |-> r.ui, calls |-> r.calls]
            ELSE [daily |-> daily, ui |-> r.ui, calls |-> r.calls])

RECURSIVE SummaryLoop(_, _, _)
\* the loop over recent_daily_data.iterrows(), from row i of `recent` on;
\* sofar = [daily, ui, calls] of the earlier rows
SummaryLoop(sofar, recent, i) ==
    Let(sofar, LAMBDA acc :
    IF i > Len(recent) THEN acc
    ELSE Let(SummaryStep(acc.daily, recent[i].date), LAMBDA step :
             SummaryLoop([daily |-> step.daily, ui |-> acc.ui \o step.ui,
                          calls |-> acc.calls \o step.calls], recent, i + 1)))

\* one dictionary of summary_data (lines 294-303)
DisplayRow(row) ==
    [Date |-> Strftime(row.date),
     Day |-> DayName(row.date),
     Opening |-> row.Open,
     Closing |-> row.Close,
     DailyPct |-> Fmt2(row.Daily_Change),
     DailyTrend |-> row.Daily_Trend,
     Last5min |-> Fmt2(row.Last_5min_Change),
     Last5minTrend |-> row.Last_5min_Trend]

NoTable == [none |-> TRUE, rows |-> <<>>]

\* returns [ret, daily, ui, calls]: the table, daily_data as the loop left it, messages, provider calls
create_daily_summary_table(f) ==
    IF f.none \/ f.bars = <<>>
    THEN [ret |-> NoTable, daily |-> <<>>, ui |-> <<>>, calls |-> <<>>]
    ELSE Let(InitialDaily(f.bars), LAMBDA daily0 :
         Let(SummaryLoop([daily |-> daily0, ui |-> <<>>, calls |-> <<>>],
                         TailN(daily0, LookbackDays), 1), LAMBDA loop :
         LET recent == TailN(loop.daily, LookbackDays)
         IN  [ret |-> [none |-> FALSE, rows |-> [i \in 1..Len(recent) |-> DisplayRow(recent[i])]],
              daily |-> loop.daily, ui |-> loop.ui, calls |-> loop.calls]))

----------------------------------------------------------------------------
(* The environment's choices *)

AllDates == 1..(MaxDay + 1)

\* (tzfault, naive): which step of the conversion raises, and whether the index is tz-naive
TzModes ==
    {<<"none", FALSE>>, <<"none", TRUE>>, <<"resolve", FALSE>>, <<"resolve", TRUE>>,
     <<"localize", TRUE>>, <<"convert", FALSE>>, <<"convert", TRUE>>}

\* the dates the fallback can reach from selected_date, and one beyond
Window == (SelDate - MaxDaysBack - 1)..SelDate

\* intraday page: every mix of error / nothing / bars over the window
Worlds1m == [Window -> {"raise", "empty", "up2"}]

\* intraday page: bars on at most one date of the window, and one kind of failure elsewhere
Worlds1mSmall ==
    { [d \in Window |-> IF d = SelDate - j THEN "six" ELSE k] :
        j \in 0..(MaxDaysBack + 1), k \in {"raise", "empty", "stray"} }

\* 5-minute holdings: bars on at most one date of the window, errors or nothing elsewhere
Worlds5m ==
    { [d \in Window |-> IF d = SelDate - j THEN "down3" ELSE k] :
        j \in 0..(MaxDaysBack + 1), k \in {"raise", "empty"} }

Cycle == <<"up2", "empty", "six", "raise", "down3", "stray", "flat4", "one", "zero6">>

\* daily page: the catalogue laid over the calendar, shifted by q days
SummaryWorlds ==
    { [d \in AllDates |-> Cycle[((d + q) % Len(Cycle)) + 1]] : q \in 0..(NumOffsets - 1) }

\* the first load_4h_data(period) of the daily page
MainOutcomes ==
    {Raises, Rows(ProviderTz, <<>>), Rows(ProviderTz, SeriesBars(1, FirstDay, FirstDay + 1, 0))}

----------------------------------------------------------------------------
(* The page functions *)

Init ==
    /\ pc = "start"
    /\ page \in {"daily", "intraday"}
    /\ selected_date = IF page = "intraday" THEN SelDate ELSE 0
    /\ \E m \in TzModes : tzfault = m[1] /\ naive = m[2]
    /\ hist4h = Rows("-", <<>>)
    \* every mix of holdings is drawn with a zoned index and a working conversion,
    \* the smaller family with every conversion mode
    /\ hist1m \in IF page = "intraday"
                   THEN Worlds1mSmall \cup (IF tzfault = "none" /\ ~naive THEN Worlds1m ELSE {})
                   ELSE {[d \in Window |-> "empty"]}
    /\ hist5m = [d \in Window |-> "empty"]
    /\ data = None
    /\ table_data = None
    /\ daily_data = <<>>
    /\ summary_table = NoTable
    /\ ui = <<>>
    /\ calls = <<>>

Env == <<page, selected_date, tzfault, naive>>

\* daily_analysis_page, line 378: data = load_4h_data(period)
DailyLoadMain ==
    /\ pc = "start" /\ page = "daily"
    /\ \E o \in MainOutcomes :
         LET r == load_4h_data(o)
         IN  /\ hist4h' = o
             /\ data' = r.ret
             /\ ui' = ui \o r.ui
             /\ calls' = calls \o r.calls
    /\ pc' = "main_loaded"
    /\ UNCHANGED <<Env, hist1m, hist5m, table_data, daily_data, summary_table>>

\* lines 380-431: metrics and chart of the main series
DailyCharts ==
    /\ pc = "main_loaded" /\ HasData(data)
    /\ ui' = ui \o <<Msg("info", "daily_analysis_page", 0)>>
    /\ pc' = "charts"
    /\ UNCHANGED <<Env, hist4h, hist1m, hist5m, data, table_data, daily_data, summary_table, calls>>

\* lines 450-451: the main series has no bars
DailyFail ==
    /\ pc = "main_loaded" /\ ~HasData(data)
    /\ ui' = ui \o <<Msg("error", "daily_analysis_page", 0)>>
    /\ pc' = "done"
    /\ UNCHANGED <<Env, hist4h, hist1m, hist5m, data, table_data, daily_data, summary_table, calls>>

\* line 435: table_data = load_4h_data("1mo")
DailyLoadTable ==
    /\ pc = "charts"
    /\ \E o \in Outcomes4h :
         LET r == load_4h_data(o)
         IN  /\ hist4h' = o
             /\ table_data' = r.ret
             /\ ui' = ui \o r.ui
             /\ calls' = calls \o r.calls
             \* the provider's 1-minute holdings matter from here on, when there is a table to build
             /\ hist1m' \in IF HasData(r.ret) THEN SummaryWorlds ELSE {hist1m}
    /\ pc' = "table_loaded"
    /\ UNCHANGED <<Env, hist5m, data, daily_data, summary_table>>

\* lines 437-446: summary_table = create_daily_summary_table(table_data)
DailySummary ==
    /\ pc = "table_loaded" /\ HasData(table_data)
    /\ UNCHANGED <<Env, hist4h, hist1m, hist5m, data, table_data>>
    /\ LET s == create_daily_summary_table(table_data)
       IN  /\ summary_table' = s.ret
           /\ daily_data' = s.daily
           /\ ui' = ui \o s.ui \o
                    (IF s.ret.none THEN <<Msg("warning", "daily_analysis_page", 0)>> ELSE <<>>)
           /\ calls' = calls \o s.calls
    /\ pc' = "done"

\* lines 447-448: the table series has no bars
DailyNoTable ==
    /\ pc = "table_loaded" /\ ~HasData(table_data)
    /\ ui' = ui \o <<Msg("warning", "daily_analysis_page", 0)>>
    /\ pc' = "done"
    /\ UNCHANGED <<Env, hist4h, hist1m, hist5m, data, table_data, daily_data, summary_table, calls>>

\* intraday_analysis_page, line 483: data = load_intraday_data_robust(str(selected_date), "1m")
IntradayLoad1m ==
    /\ pc = "start" /\ page = "intraday"
    /\ UNCHANGED <<Env, hist4h, hist1m, table_data, daily_data, summary_table>>
    /\ LET r == load_intraday_data_robust(Strftime(selected_date), "1m")
       IN  /\ data' = r.ret
           /\ ui' = ui \o r.ui
           /\ calls' = calls \o r.calls
           \* the provider's 5-minute holdings matter from here on, when 1-minute data is missing
           /\ hist5m' \in IF HasData(r.ret) THEN {hist5m} ELSE Worlds5m
    /\ pc' = "loaded_1m"

\* lines 486-489: no 1-minute data, try 5-minute data
IntradayLoad5m ==
    /\ pc = "loaded_1m" /\ ~HasData(data)
    /\ UNCHANGED <<Env, hist4h, hist1m, hist5m, table_data, daily_data, summary_table>>
    /\ LET r == load_intraday_data_robust(Strftime(selected_date), "5m")
       IN  /\ data' = r.ret
           /\ ui' = ui \o <<Msg("warning", "intraday_analysis_page", 0)>> \o r.ui
           /\ calls' = calls \o r.calls
    /\ pc' = "loaded"

\* line 486 is false: the 1-minute data is kept
IntradayKeep1m ==
    /\ pc = "loaded_1m" /\ HasData(data)
    /\ pc' = "loaded"
    /\ UNCHANGED <<Env, hist4h, hist1m, hist5m, data, table_data, daily_data, summary_table, ui, calls>>

\* lines 492-594: the debug messages, then the charts or the error
IntradayRender ==
    /\ pc = "loaded"
    /\ ui' = ui \o
             (IF data.none THEN <<>>
              ELSE <<Msg("info", "intraday_analysis_page", selected_date)>> \o
                   (IF data.bars # <<>>
                    THEN <<Msg("info", "intraday_analysis_page", DateOf(data.bars[1].t))>>
                    ELSE <<Msg("warning", "intraday_analysis_page", 0)>>)) \o
             (IF HasData(data) THEN <<>> ELSE <<Msg("error", "intraday_analysis_page", selected_date)>>)
    /\ pc' = "done"
    /\ UNCHANGED <<Env, hist4h, hist1m, hist5m, data, table_data, daily_data, summary_table, calls>>

Next ==
    \/ DailyLoadMain
    \/ DailyCharts
    \/ DailyFail
    \/ DailyLoadTable
    \/ DailySummary
    \/ DailyNoTable
    \/ IntradayLoad1m
    \/ IntradayLoad5m
    \/ IntradayKeep1m
    \/ IntradayRender

Spec == Init /\ [][Next]_vars

----------------------------------------------------------------------------
(* Properties *)

\* the provider holds at least one bar of date d at the interval
HasBars(interval, d) == Closes(Hist(interval, d), d) # <<>>

\* the provider calls issued so far at the interval
CallsOf(interval) == SelectSeq(calls, LAMBDA c : c.interval = interval)

\* the calls for the dates from, from - 1, ..., to
Descending(interval, from, to) == [i \in 1..(from - to + 1) |-> Call(interval, from - i + 1)]

\* the closes of a frame's bars, in order
ClosesOf(f) == [i \in 1..Len(f.bars) |-> f.bars[i].Close]

\* ret is what the fallback owes for selected_date: the bars of the latest date within
\* 7 days that has any, reached by trying selected_date and then one day back per attempt
FallbackUsesLatest(interval, ret) ==
    LET good == { d \in (selected_date - 7)..selected_date : HasBars(interval, d) }
    IN  IF good = {}
        THEN /\ ret = None
             /\ CallsOf(interval) = Descending(interval, selected_date, selected_date - 7)
        ELSE LET d == CHOOSE x \in good : \A y \in good : y <= x
             IN  /\ HasData(ret)
                 /\ ClosesOf(ret) = Closes(Hist(interval, d), d)
                 /\ \A i \in 1..Len(ret.bars) : DateOf(ret.bars[i].t) = d
                 /\ CallsOf(interval) = Descending(interval, selected_date, d)

\* C1: load_intraday_data_robust tries the requested date, then one calendar day back per
\* attempt, stops at the first date with bars (never skipping a nearer date that has bars,
\* never going more than 7 days back) and returns that date's bars, or None when all 8
\* dates are empty.
C1_FallbackLatestDate ==
    /\ pc = "loaded_1m" => FallbackUsesLatest("1m", data)
    /\ (pc = "loaded" /\ CallsOf("5m") # <<>>) => FallbackUsesLatest("5m", data)

\* the requested date has nothing, the day before raises, and both of the next two days
\* back have bars: the bars of two days back are returned
C1_Witness ==
    /\ pc = "loaded_1m"
    /\ hist1m[selected_date] = "empty"
    /\ hist1m[selected_date - 1] = "raise"
    /\ HasBars("1m", selected_date - 2)
    /\ HasBars("1m", selected_date - 3)
    /\ HasData(data)
    /\ DateOf(data.bars[1].t) = selected_date - 2

\* the daily page has built its summary table
TableBuilt == pc = "done" /\ page = "daily" /\ ~summary_table.none

\* the calendar days on which the table's input series has at least one bar
DaysWithBars == { DateOf(table_data.bars[i].t) : i \in 1..Len(table_data.bars) }

\* the date of a display row
RowDate(row) == Strptime(row.Date)

\* the sign tag of an integer
TagOf(n) == IF n > 0 THEN "up" ELSE IF n < 0 THEN "down" ELSE "flat"

\* the point delta (cents) owed to a day whose 1-minute closes are cl: last close minus
\* the close of the 5th-from-last sample, or of the first when there are fewer than 5
OwedDelta(cl) == cl[Len(cl)] - cl[IF Len(cl) >= 5 THEN Len(cl) - 4 ELSE 1]

\* C2: in the summary table, a day whose intraday retrieval raises, is empty or has fewer
\* than 2 samples has Last_5min_Change = 0 and the flat trend; the table still has a row
\* for every day of the window; every other day has the delta and trend of its own bars.
C2_PerDayFailureIsNeutral ==
    TableBuilt =>
        /\ Len(summary_table.rows) =
               (IF Cardinality(DaysWithBars) > 30 THEN 30 ELSE Cardinality(DaysWithBars))
        /\ \A i \in 1..Len(summary_table.rows) :
              LET row == summary_table.rows[i]
                  cl  == Closes(Hist("1m", RowDate(row)), RowDate(row))
              IN  IF Len(cl) < 2
                  THEN row.Last5min = [nan |-> FALSE, hundredths |-> 0] /\ row.Last5minTrend = "flat"
                  ELSE /\ row.Last5min = [nan |-> FALSE, hundredths |-> OwedDelta(cl)]
                       /\ row.Last5minTrend = TagOf(OwedDelta(cl))

\* a day whose retrieval raises sits between a day with a positive and a day with a
\* negative delta, and a day with one sample and an empty day are in the table too
C2_Witness ==
    /\ TableBuilt
    /\ \E i \in 2..(Len(summary_table.rows) - 1) :
          /\ Hist("1m", RowDate(summary_table.rows[i])) = "raise"
          /\ summary_table.rows[i].Last5min.hundredths = 0
          /\ summary_table.rows[i - 1].Last5min.hundredths > 0
          /\ summary_table.rows[i + 1].Last5min.hundredths < 0
    /\ \E i \in 1..Len(summary_table.rows) : Hist("1m", RowDate(summary_table.rows[i])) = "one"
    /\ \E i \in 1..Len(summary_table.rows) : Hist("1m", RowDate(summary_table.rows[i])) = "empty"

\* C9: the summary rows are in strictly increasing date order, one row per calendar day
\* that has at least one bar in the input and none for other days, restricted to the 30
\* most recent such days.
C9_RowsAreLatestTradingDays ==
    TableBuilt =>
        LET rows == summary_table.rows
        IN  /\ Len(rows) <= 30
            /\ \A i \in 1..(Len(rows) - 1) : RowDate(rows[i]) < RowDate(rows[i + 1])
            /\ { RowDate(rows[i]) : i \in 1..Len(rows) } =
                   { d \in DaysWithBars : Cardinality({ e \in DaysWithBars : e > d }) < 30 }

\* more than 30 days have bars, one day inside the range has none, and 30 rows are shown
C9_Witness ==
    /\ TableBuilt
    /\ Cardinality(DaysWithBars) > 30
    /\ \E d \in DaysWithBars : d + 1 \notin DaysWithBars /\ d + 2 \in DaysWithBars
    /\ Len(summary_table.rows) = 30

\* the messages emitted by one function, in order
MsgsOf(src) == SelectSeq(ui, LAMBDA m : m.src = src)

\* C3: load_4h_data and load_intraday_data ask the provider once per invocation and
\* return for every provider outcome; a provider error gives None, and the callers treat
\* None as they treat an empty series: the daily page shows its error (main series) or its
\* warning (table series) and builds nothing, and the fallback steps on to the next date
\* and reports None when no date has bars.
C3_ProviderErrorIsNoData ==
    /\ pc \in {"main_loaded", "charts"} =>
          /\ CallsOf("4h") = <<Call("4h", 0)>>
          /\ data.none <=> hist4h.raises
          /\ ~data.none => Len(data.bars) = Len(hist4h.bars)
    /\ pc = "table_loaded" =>
          /\ CallsOf("4h") = <<Call("4h", 0), Call("4h", 0)>>
          /\ table_data.none <=> hist4h.raises
          /\ ~table_data.none => Len(table_data.bars) = Len(hist4h.bars)
    /\ \A i, j \in 1..Len(calls) :
          (i # j /\ calls[i].interval # "4h") => calls[i] # calls[j]
    /\ (pc = "done" /\ page = "daily" /\ ~HasData(data)) =>
          /\ MsgsOf("daily_analysis_page") = <<Msg("error", "daily_analysis_page", 0)>>
          /\ Len(calls) = 1 /\ table_data = None /\ summary_table = NoTable
    /\ (pc = "done" /\ page = "daily" /\ HasData(data) /\ ~HasData(table_data)) =>
          /\ MsgsOf("daily_analysis_page") =
                 <<Msg("info", "daily_analysis_page", 0), Msg("warning", "daily_analysis_page", 0)>>
          /\ Len(calls) = 2 /\ summary_table = NoTable
    /\ (page = "intraday" /\ pc \in {"loaded_1m", "loaded", "done"} /\ ~HasData(data)) =>
          /\ data = None
          /\ \A d \in (selected_date - 7)..selected_date :
                ~HasBars(IF CallsOf("5m") = <<>> THEN "1m" ELSE "5m", d)

\* the provider raised on the table series of the daily page: the page shows its
\* warning after one call for the main series and one for the table series
C3_Witness ==
    /\ pc = "done" /\ page = "daily"
    /\ hist4h.raises
    /\ HasData(data)
    /\ table_data = None
    /\ Len(calls) = 2

\* the latest date within 7 days of selected_date on which the provider has bars, 0 if none
LatestWithBars(interval) ==
    LET good == { d \in (selected_date - 7)..selected_date : HasBars(interval, d) }
    IN  IF good = {} THEN 0 ELSE CHOOSE x \in good : \A y \in good : y <= x

\* the 1-minute calls of the summary, in order
SummaryCalls == CallsOf("1m")

\* C4 as stated: a summary row whose own date has no 1-minute bars, while an earlier date
\* within 7 days has, is retrieved by stepping back: the call for the day before follows
\* the call for the row's date.
C4_SummaryUsesFallback ==
    TableBuilt =>
        \A i \in 1..Len(summary_table.rows) :
            LET d == RowDate(summary_table.rows[i])
            IN  (~HasBars("1m", d) /\ \E e \in (d - 7)..(d - 1) : HasBars("1m", e)) =>
                    \E k \in 1..(Len(SummaryCalls) - 1) :
                        SummaryCalls[k] = Call("1m", d) /\ SummaryCalls[k + 1] = Call("1m", d - 1)

\* C4 (amended): for each of the most recent 30 resampled days the summary makes one
\* retrieval, for the day's own date, in row order; a row whose date has no bars keeps the
\* defaults even when an earlier date within 7 days has bars.
C4_SummaryFetchesOwnDateOnly ==
    TableBuilt =>
        /\ SummaryCalls =
               [i \in 1..Len(summary_table.rows) |-> Call("1m", RowDate(summary_table.rows[i]))]
        /\ \A i \in 1..Len(summary_table.rows) :
              ~HasBars("1m", RowDate(summary_table.rows[i])) =>
                  /\ summary_table.rows[i].Last5min.hundredths = 0
                  /\ summary_table.rows[i].Last5minTrend = "flat"

\* a row whose date has no bars while the day before has bars with a non-zero delta
C4_Witness ==
    /\ TableBuilt
    /\ \E i \in 1..Len(summary_table.rows) :
          LET d == RowDate(summary_table.rows[i])
          IN  /\ ~HasBars("1m", d)
              /\ Len(Closes(Hist("1m", d - 1), d - 1)) >= 2
              /\ OwedDelta(Closes(Hist("1m", d - 1), d - 1)) # 0
              /\ summary_table.rows[i].Last5min.hundredths = 0

\* C5 as stated: a non-empty result of load_intraday_data_robust carries, with the
\* series, the date whose bars were used.
C5_ResultCarriesDate ==
    (page = "intraday" /\ pc \in {"loaded_1m", "loaded"} /\ HasData(data)) =>
        /\ "actual_date" \in DOMAIN data
        /\ data.actual_date = DateOf(data.bars[1].t)

\* what load_intraday_data_robust owes for the interval: the series alone, and one info
\* message naming the date used exactly when that date is not the requested one
SubstitutionReported(interval) ==
    /\ DOMAIN data = {"none", "tz", "bars"}
    /\ HasData(data) => DateOf(data.bars[1].t) = LatestWithBars(interval)
    /\ MsgsOf("load_intraday_data_robust") =
          IF LatestWithBars(interval) \in {0, selected_date} THEN <<>>
          ELSE <<Msg("info", "load_intraday_data_robust", LatestWithBars(interval))>>

\* C5 (amended): load_intraday_data_robust returns the series alone; the date whose bars
\* were used is not part of the result. When the bars are those of an earlier date the
\* function itself emits one info message naming that date, and none when the requested
\* date had bars or no date had.
C5_SubstitutionIsAnnounced ==
    /\ pc = "loaded_1m" => SubstitutionReported("1m")
    /\ (pc = "loaded" /\ CallsOf("5m") # <<>>) => SubstitutionReported("5m")

\* the bars of three days back are used and the message names that date
C5_Witness ==
    /\ pc = "loaded_1m"
    /\ HasData(data)
    /\ DateOf(data.bars[1].t) = selected_date - 3
    /\ MsgsOf("load_intraday_data_robust") =
          <<Msg("info", "load_intraday_data_robust", selected_date - 3)>>

\* C6: when a step of convert_to_paris_time fails (it warns), load_4h_data still returns
\* the bars, with the index exactly as the provider gave it.
C6_FailedNormalizationReturnsInput ==
    (pc = "main_loaded" /\ MsgsOf("convert_to_paris_time") # <<>>) =>
        /\ HasData(data)
        /\ data = Frame(hist4h.tz, hist4h.bars)

\* C7: the first day of the resampled series is absent from the rows, or its daily
\* percent change and daily trend are both undefined (no up, down or flat tag).
C7_FirstDayUndefined ==
    TableBuilt =>
        \A i \in 1..Len(summary_table.rows) :
            RowDate(summary_table.rows[i]) = daily_data[1].date =>
                /\ summary_table.rows[i].DailyPct.nan
                /\ summary_table.rows[i].DailyTrend \notin {"up", "down", "flat"}

\* C8: when a page is done, an error message is on the screen only if a top-level series
\* of the page has no bars; provider failures of per-day fetches and of fallback attempts
\* followed by a success leave no error message.
C8_ErrorOnlyOnEmptyPrimary ==
    (pc = "done" /\ \E i \in 1..Len(ui) : ui[i].kind = "error") =>
        \/ ~HasData(data)
        \/ page = "daily" /\ ~HasData(table_data)

\* the 3-way rule on a float value and its tag
ThreeWay(x, tag) ==
    /\ tag = "up" <=> (~x.nan /\ x.num > 0)
    /\ tag = "down" <=> (~x.nan /\ x.num < 0)
    /\ tag = "flat" <=> (~x.nan /\ x.num = 0)

\* C10: in every summary row the daily trend follows the 3-way rule on the daily percent
\* change and the last-5-minute trend follows it on the point delta: flat if and only if
\* the value is exactly 0.
C10_TrendsFollowThreeWayRule ==
    TableBuilt =>
        \A i \in 1..Len(daily_data) :
            i > Len(daily_data) - 30 =>
                /\ ThreeWay(daily_data[i].Daily_Change, daily_data[i].Daily_Trend)
                /\ ThreeWay(daily_data[i].Last_5min_Change, daily_data[i].Last_5min_Trend)

\* the 1-minute closes the provider holds for the day of row i of daily_data
OwnCloses(i) == Closes(Hist("1m", daily_data[i].date), daily_data[i].date)

\* C11: after the loop, every day among the last 30 of daily_data whose 1-minute series
\* has at least 2 samples has Last_5min_Change = close of its last sample minus close of
\* its 5th-from-last sample (of its first sample when it has 2 to 4); the value is written
\* to that day's row only: every other row still has the initial 0.0.
C11_Last5minDeltaOnOwnRow ==
    TableBuilt =>
        \A i \in 1..Len(daily_data) :
            IF i > Len(daily_data) - 30 /\ Len(OwnCloses(i)) >= 2
            THEN LET cl == OwnCloses(i)
                     n  == Len(cl)
                 IN  daily_data[i].Last_5min_Change =
                         Num(cl[n] - (IF n >= 5 THEN cl[n - 4] ELSE cl[1]), 100)
            ELSE daily_data[i].Last_5min_Change = Num(0, 100)

\* more than 30 resampled days; among the last 30 a day with 6 samples whose delta over
\* the last 5 differs from its delta over the whole day, and a day with 3 samples; the
\* day before the window has 2 samples and keeps 0.0
C11_Witness ==
    /\ TableBuilt
    /\ Len(daily_data) > 30
    /\ Len(OwnCloses(Len(daily_data) - 30)) = 2
    /\ \E i \in (Len(daily_data) - 29)..Len(daily_data) :
          /\ Len(OwnCloses(i)) = 6
          /\ daily_data[i].Last_5min_Change.num > 0
          /\ OwnCloses(i)[6] < OwnCloses(i)[1]
    /\ \E i \in (Len(daily_data) - 29)..Len(daily_data) :
          /\ Len(OwnCloses(i)) = 3
          /\ daily_data[i].Last_5min_Change.num < 0

====
